---- MODULE Spec2Model ----
(***************************************************************************)
(* The greet_fastapi base of craole-cc/datum: a module that obtains a      *)
(* logger, creates a FastAPI application and registers two GET handlers,   *)
(* root() on "/" and read_item() on "/items/{item_id}".                    *)
(*                                                                         *)
(* Python values are tagged records, so that an int, a str and None never  *)
(* compare equal: [int |-> n], [str |-> s], [none |-> TRUE].  JSON values  *)
(* are [number |-> n], [string |-> s], [null |-> TRUE].  The text of the   *)
(* item_id path segment is a sequence of one-character strings, because    *)
(* the framework parses it; every other string is opaque.                  *)
(***************************************************************************)
EXTENDS Integers, Sequences, FiniteSets

\* ------------------------------------------------------------------ bounds

\* How many requests one behaviour holds (each request id is used once).
MaxRequests == 2

Requests == 1..MaxRequests

\* ------------------------------------------------------------ Python values

PyNone == [none |-> TRUE]
PyInt(n) == [int |-> n]
PyStr(s) == [str |-> s]

\* A module global that has not been assigned yet.
Unset == [unset |-> TRUE]

\* ------------------------------------------------- the request environment

Digits == {"0", "1", "2", "3", "4", "5", "6", "7", "8", "9"}

DigitChar(d) ==
  CASE d = 0 -> "0" [] d = 1 -> "1" [] d = 2 -> "2" [] d = 3 -> "3"
    [] d = 4 -> "4" [] d = 5 -> "5" [] d = 6 -> "6" [] d = 7 -> "7"
    [] d = 8 -> "8" [] d = 9 -> "9"

RECURSIVE NatText(_)
NatText(n) == IF n < 10 THEN <<DigitChar(n)>>
              ELSE Append(NatText(n \div 10), DigitChar(n % 10))

\* The decimal text a client puts in the URL for the integer n.
Decimal(n) == IF n < 0 THEN <<"-">> \o NatText(-n) ELSE NatText(n)

\* The integers clients ask for, and path segments that are no integer.
ItemIds == {-5, 0, 5, 12}
BadSegments == {<<"a", "b", "c">>, <<"5", "a">>, <<"-">>, <<"1", "-", "2">>}

\* The query string: q absent, or q given with a value.
Absent == [absent |-> TRUE]
Queries == {Absent, PyStr("test"), PyStr("")}

\* What the greeting provider may return.
Greetings == {"Hello World", "Howdy"}

\* --------------------------------------------------------------- the state

VARIABLES
  modpc,          \* the line of core.py the import executes next, or "serving"
  logger,         \* the module global `logger`
  app,            \* the module global `app`, with the routes registered on it
  getLoggerCalls, \* how many times get_logger has been called
  pc,             \* per request: "idle", "routed", "L13", "L15", "L20", "done"
  route,          \* per request: "root" or "items"
  seg,            \* per request: the text of the item_id path segment
  query,          \* per request: the q of the query string, or Absent
  intent,         \* per request: the integer the client meant, if any
  frame,          \* per request: the handler call's local variables
  resp,           \* per request: the response sent
  logCount,       \* info lines emitted, in all
  greetCalls,     \* greeting.hello_world() calls, in all
  logsBy,         \* per request: info lines its handler emitted
  greetsBy,       \* per request: hello_world() calls its handler made
  greetRet,       \* per request: what hello_world() returned to it
  logVia,         \* per request: the handle its logger.info call went through
  raised,         \* per request: "none", "logger" or "greeting"
  entered         \* per request: whether a handler body was entered

vars == <<modpc, logger, app, getLoggerCalls, pc, route, seg, query, intent,
          frame, resp, logCount, greetCalls, logsBy, greetsBy, greetRet,
          logVia, raised, entered>>

modvars == <<modpc, logger, app, getLoggerCalls>>
reqvars == <<route, seg, query, intent>>
logvars == <<logCount, logsBy, logVia>>
greetvars == <<greetCalls, greetsBy, greetRet>>

NoResp == [pending |-> TRUE]

Init ==
  /\ modpc = "L8"
  /\ logger = Unset
  /\ app = Unset
  /\ getLoggerCalls = 0
  /\ pc = [r \in Requests |-> "idle"]
  /\ route = [r \in Requests |-> "none"]
  /\ seg = [r \in Requests |-> <<>>]
  /\ query = [r \in Requests |-> Absent]
  /\ intent = [r \in Requests |-> PyNone]
  /\ frame = [r \in Requests |-> Unset]
  /\ resp = [r \in Requests |-> NoResp]
  /\ logCount = 0
  /\ greetCalls = 0
  /\ logsBy = [r \in Requests |-> 0]
  /\ greetsBy = [r \in Requests |-> 0]
  /\ greetRet = [r \in Requests |-> Unset]
  /\ logVia = [r \in Requests |-> Unset]
  /\ raised = [r \in Requests |-> "none"]
  /\ entered = [r \in Requests |-> FALSE]

\* ------------------------------------------------------------ collaborators

\* components.datum.logger.core.get_logger: the k-th call's handle.
get_logger(name, k) == [logger |-> name, id |-> k]

\* fastapi.FastAPI(): an application with no route yet.
FastAPI == [routes |-> {}]

\* @app.get(path) registers a handler on the application.
app_get(a, name) == [a EXCEPT !.routes = @ \cup {name}]

\* --------------------------------------------------- the framework's layers

\* A handler's returned value as JSON: None is null, an int a number.
ToJson(v) ==
  IF "int" \in DOMAIN v THEN [number |-> v.int]
  ELSE IF "str" \in DOMAIN v THEN [string |-> v.str]
  ELSE [null |-> TRUE]

\* A handler returned the dict d: status 200, the dict as a JSON object.
JSONResponse(d) == [status |-> 200, body |-> [k \in DOMAIN d |-> ToJson(d[k])]]

\* An exception left the handler: the framework's default error response.
ServerError == [status |-> 500, body |-> [string |-> "Internal Server Error"]]

\* Request validation failed: the framework's 422 response.
ValidationError == [status |-> 422, body |-> [detail |-> "int_parsing"]]

DigitVal(c) ==
  CASE c = "0" -> 0 [] c = "1" -> 1 [] c = "2" -> 2 [] c = "3" -> 3
    [] c = "4" -> 4 [] c = "5" -> 5 [] c = "6" -> 6 [] c = "7" -> 7
    [] c = "8" -> 8 [] c = "9" -> 9

IsDigits(t) == Len(t) > 0 /\ \A i \in 1..Len(t) : t[i] \in Digits

RECURSIVE DigitsVal(_)
DigitsVal(t) == IF t = <<>> THEN 0
                ELSE 10 * DigitsVal(SubSeq(t, 1, Len(t) - 1)) + DigitVal(t[Len(t)])

\* A parameter annotated `str` takes the text as it is.
\* (The annotation a handler written without the int would carry.)
item_id_param_str(text) == [ok |-> TRUE, value |-> PyStr(text)]

\* `item_id: int`: the path segment's text as an int (an optional sign, then
\* decimal digits), or a validation error.
item_id_param(text) ==
  LET signed == Len(text) > 0 /\ text[1] \in {"+", "-"}
      digits == IF signed THEN Tail(text) ELSE text
  IN IF IsDigits(digits)
     THEN [ok |-> TRUE,
           value |-> PyInt(IF signed /\ text[1] = "-" THEN 0 - DigitsVal(digits)
                           ELSE DigitsVal(digits))]
     ELSE [ok |-> FALSE]

q_default_empty == PyStr("")

\* `q: Union[str, None] = None`: the default of q.
q_default == PyNone

\* The q the handler is called with.
q_param(qry) == IF qry = Absent THEN q_default ELSE qry

\* ------------------------------------------------------------ the handlers

root_result_fixed(g) == [message |-> PyStr("Hello World")]

\* root's returned dict, g being what greeting.hello_world() returned.
root_result(g) == [message |-> g]

read_item_no_q(item_id, q) == [item_id |-> item_id, q |-> PyNone]

\* read_item's returned dict.
read_item(item_id, q) == [item_id |-> item_id, q |-> q]

root_entry_no_log == "L15"

\* The first statement of root's body: the logger.info call of line 13.
root_entry == "L13"

root_except_caught(who) == JSONResponse([message |-> PyStr("unavailable")])

\* An exception raised inside root's body: no try encloses lines 13-15, so
\* it leaves the handler and the request ends in the framework's response.
root_except(who) == ServerError

LocalsShared(r) == frame[CHOOSE s \in Requests : pc[s] = "L20"]

\* The local variables a handler call reads: those of its own frame.
Locals(r) == frame[r]

\* ------------------------------------------------------------- module load

\* Line 8: logger = get_logger("greet-FastAPI-logger")
LoadLogger ==
  /\ modpc = "L8"
  /\ logger' = get_logger("greet-FastAPI-logger", getLoggerCalls + 1)
  /\ getLoggerCalls' = getLoggerCalls + 1
  /\ modpc' = "L9"
  /\ UNCHANGED <<app, pc, reqvars, frame, resp, logvars, greetvars, raised,
                 entered>>

\* Line 9: app = FastAPI()
CreateApp ==
  /\ modpc = "L9"
  /\ app' = FastAPI
  /\ modpc' = "L11"
  /\ UNCHANGED <<logger, getLoggerCalls, pc, reqvars, frame, resp, logvars,
                 greetvars, raised, entered>>

\* Line 11: @app.get("/") on root
RegisterRoot ==
  /\ modpc = "L11"
  /\ app' = app_get(app, "root")
  /\ modpc' = "L18"
  /\ UNCHANGED <<logger, getLoggerCalls, pc, reqvars, frame, resp, logvars,
                 greetvars, raised, entered>>

\* Line 18: @app.get("/items/{item_id}") on read_item; the import is over.
RegisterReadItem ==
  /\ modpc = "L18"
  /\ app' = app_get(app, "items")
  /\ modpc' = "serving"
  /\ UNCHANGED <<logger, getLoggerCalls, pc, reqvars, frame, resp, logvars,
                 greetvars, raised, entered>>

\* ---------------------------------------------------------------- requests

\* Request r arrives (in the order of the ids) and is matched to a route.
Arrive(r, rt, text, meant, qry) ==
  /\ modpc = "serving"
  /\ pc[r] = "idle"
  /\ \A s \in Requests : s < r => pc[s] # "idle"
  /\ rt \in app.routes
  /\ pc' = [pc EXCEPT ![r] = "routed"]
  /\ route' = [route EXCEPT ![r] = rt]
  /\ seg' = [seg EXCEPT ![r] = text]
  /\ intent' = [intent EXCEPT ![r] = meant]
  /\ query' = [query EXCEPT ![r] = qry]
  /\ UNCHANGED <<modvars, frame, resp, logvars, greetvars, raised, entered>>

\* GET /
ArriveRoot(r) == Arrive(r, "root", <<>>, PyNone, Absent)

\* GET /items/<n>[?q=...] for an integer n
ArriveItem(r) ==
  \E n \in ItemIds, qry \in Queries : Arrive(r, "items", Decimal(n), PyInt(n), qry)

\* GET /items/<text>[?q=...] for a text that is no integer
ArriveBadItem(r) ==
  \E text \in BadSegments, qry \in Queries : Arrive(r, "items", text, PyNone, qry)

\* The framework calls root(), which takes no parameter.
root_call(r) ==
  /\ pc[r] = "routed"
  /\ route[r] = "root"
  /\ frame' = [frame EXCEPT ![r] = [f |-> "root"]]
  /\ entered' = [entered EXCEPT ![r] = TRUE]
  /\ pc' = [pc EXCEPT ![r] = root_entry]
  /\ UNCHANGED <<modvars, reqvars, resp, logvars, greetvars, raised>>

\* What a logger.info call may do: return having emitted the line, or raise
\* (with the line emitted or not).
LoggerOutcomes ==
  {[raises |-> FALSE, emitted |-> TRUE],
   [raises |-> TRUE, emitted |-> TRUE],
   [raises |-> TRUE, emitted |-> FALSE]}

\* What a greeting.hello_world() call may do: return a string, or raise.
GreetingOutcomes ==
  {[raises |-> TRUE]} \cup {[raises |-> FALSE, value |-> PyStr(g)] : g \in Greetings}

\* Line 13 run by request r through `handle`, get_logger having been called
\* `calls` times by then.
info_call(r, handle, calls, out) ==
  /\ pc[r] = "L13"
  /\ logger' = handle
  /\ getLoggerCalls' = calls
  /\ logVia' = [logVia EXCEPT ![r] = handle]
  /\ logCount' = IF out.emitted THEN logCount + 1 ELSE logCount
  /\ logsBy' = [logsBy EXCEPT ![r] = IF out.emitted THEN @ + 1 ELSE @]
  /\ IF out.raises
     THEN /\ raised' = [raised EXCEPT ![r] = "logger"]
          /\ resp' = [resp EXCEPT ![r] = root_except("logger")]
          /\ pc' = [pc EXCEPT ![r] = "done"]
     ELSE /\ pc' = [pc EXCEPT ![r] = "L15"]
          /\ UNCHANGED <<raised, resp>>
  /\ UNCHANGED <<modpc, app, reqvars, frame, greetvars, entered>>

root_log_reacquire(r) ==
  \E out \in LoggerOutcomes :
    info_call(r, get_logger("greet-FastAPI-logger", getLoggerCalls + 1),
              getLoggerCalls + 1, out)

\* Line 13: logger.info("The FastAPI root endpoint was called.")
root_log(r) == \E out \in LoggerOutcomes : info_call(r, logger, getLoggerCalls, out)

\* Line 15 run by request r: `called` says whether hello_world() is called,
\* `out` what the greeting is or that the call raised.
hello_call(r, out, called) ==
  /\ pc[r] = "L15"
  /\ greetCalls' = IF called THEN greetCalls + 1 ELSE greetCalls
  /\ greetsBy' = [greetsBy EXCEPT ![r] = IF called THEN @ + 1 ELSE @]
  /\ IF out.raises
     THEN /\ raised' = [raised EXCEPT ![r] = "greeting"]
          /\ resp' = [resp EXCEPT ![r] = root_except("greeting")]
          /\ UNCHANGED greetRet
     ELSE /\ greetRet' = [greetRet EXCEPT ![r] = out.value]
          /\ resp' = [resp EXCEPT ![r] = JSONResponse(root_result(out.value))]
          /\ UNCHANGED raised
  /\ pc' = [pc EXCEPT ![r] = "done"]
  /\ UNCHANGED <<modvars, reqvars, frame, logvars, entered>>

root_return_cached(r) ==
  IF \E s \in Requests : greetRet[s] # Unset
  THEN hello_call(r, [raises |-> FALSE,
                      value |-> greetRet[CHOOSE s \in Requests : greetRet[s] # Unset]],
                  FALSE)
  ELSE \E out \in GreetingOutcomes : hello_call(r, out, TRUE)

\* Line 15: return {"message": greeting.hello_world()}
root_return(r) == \E out \in GreetingOutcomes : hello_call(r, out, TRUE)

\* The framework validates the parameters of read_item (line 19) and, when
\* they are valid, calls it with them.
read_item_call(r) ==
  /\ pc[r] = "routed"
  /\ route[r] = "items"
  /\ LET p == item_id_param(seg[r])
     IN IF p.ok
        THEN /\ frame' = [frame EXCEPT ![r] = [f |-> "read_item",
                                               item_id |-> p.value,
                                               q |-> q_param(query[r])]]
             /\ entered' = [entered EXCEPT ![r] = TRUE]
             /\ pc' = [pc EXCEPT ![r] = "L20"]
             /\ UNCHANGED resp
        ELSE /\ resp' = [resp EXCEPT ![r] = ValidationError]
             /\ pc' = [pc EXCEPT ![r] = "done"]
             /\ UNCHANGED <<frame, entered>>
  /\ UNCHANGED <<modvars, reqvars, logvars, greetvars, raised>>

\* Line 20 run by request r, emitting `lines` info lines on the way.
item_return(r, lines) ==
  /\ pc[r] = "L20"
  /\ resp' = [resp EXCEPT ![r] = JSONResponse(read_item(Locals(r).item_id, Locals(r).q))]
  /\ pc' = [pc EXCEPT ![r] = "done"]
  /\ logCount' = logCount + lines
  /\ logsBy' = [logsBy EXCEPT ![r] = @ + lines]
  /\ UNCHANGED <<modvars, reqvars, frame, logVia, greetvars, raised, entered>>

read_item_return_logging(r) == item_return(r, 1)

\* Line 20: return {"item_id": item_id, "q": q}
read_item_return(r) == item_return(r, 0)

Next ==
  \/ LoadLogger
  \/ CreateApp
  \/ RegisterRoot
  \/ RegisterReadItem
  \/ \E r \in Requests : ArriveRoot(r)
  \/ \E r \in Requests : ArriveItem(r)
  \/ \E r \in Requests : ArriveBadItem(r)
  \/ \E r \in Requests : root_call(r)
  \/ \E r \in Requests : root_log(r)
  \/ \E r \in Requests : root_return(r)
  \/ \E r \in Requests : read_item_call(r)
  \/ \E r \in Requests : read_item_return(r)

Spec == Init /\ [][Next]_vars

\* ------------------------------------------------------------------ claims

Done(r) == pc[r] = "done"
RootOk(r) == route[r] = "root" /\ Done(r) /\ raised[r] = "none"
GoodItem(r) == route[r] = "items" /\ intent[r] # PyNone
BadItem(r) == route[r] = "items" /\ intent[r] = PyNone
JsonQ(r) == IF query[r] = Absent THEN [null |-> TRUE] ELSE [string |-> query[r].str]

\* C1: a GET / whose logger call and greeting call both succeed is answered
\* with status 200 and the body {"message": g}, g being exactly what the
\* greeting provider returned to that request, and with no other key.
C1_RootBody ==
  \A r \in Requests :
    RootOk(r) =>
      /\ resp[r].status = 200
      /\ DOMAIN resp[r].body = {"message"}
      /\ resp[r].body.message = [string |-> greetRet[r].str]

C1_Witness ==
  \E r \in Requests :
    /\ RootOk(r)
    /\ greetRet[r] = PyStr("Howdy")
    /\ resp[r] = [status |-> 200, body |-> [message |-> [string |-> "Howdy"]]]

\* C2: a GET /items/<n> for an integer n, with q a string or absent, is
\* answered with status 200 and the body {"item_id": n, "q": q}: n as a
\* number, not as the text of the path, and q as given (null when absent).
C2_ItemEcho ==
  \A r \in Requests :
    (GoodItem(r) /\ Done(r)) =>
      resp[r] = [status |-> 200,
                 body |-> [item_id |-> [number |-> intent[r].int], q |-> JsonQ(r)]]

C2_Witness ==
  \E r \in Requests :
    /\ GoodItem(r) /\ Done(r)
    /\ intent[r] = PyInt(-5)
    /\ query[r] = PyStr("test")
    /\ resp[r].body = [item_id |-> [number |-> -5], q |-> [string |-> "test"]]

\* C3: a GET /items/<text> whose text is no integer is answered with a 4xx
\* status, never with 200, and the body of read_item is never entered for it.
C3_BadItemRejected ==
  \A r \in Requests :
    BadItem(r) =>
      /\ ~entered[r]
      /\ pc[r] \in {"routed", "done"}
      /\ Done(r) => (resp[r].status \in 400..499 /\ resp[r].status # 200)

C3_Witness ==
  \E r \in Requests :
    /\ BadItem(r) /\ Done(r)
    /\ seg[r] = <<"a", "b", "c">>
    /\ resp[r].status = 422
    /\ ~entered[r]

\* C4: each successfully completed GET / emitted exactly one info line and
\* made exactly one greeting call of its own; so once n GET / requests have
\* completed successfully (none in flight, none failed) the info lines number
\* n and the greeting calls number n.
C4_OnePerRoot ==
  LET ok == {r \in Requests : RootOk(r)}
  IN /\ \A r \in ok : logsBy[r] = 1 /\ greetsBy[r] = 1
     /\ (\A r \in Requests : route[r] = "root" => RootOk(r)) =>
          (logCount = Cardinality(ok) /\ greetCalls = Cardinality(ok))

C4_Witness ==
  /\ \A r \in Requests : RootOk(r)
  /\ greetRet[1] = greetRet[2]
  /\ logCount = MaxRequests
  /\ greetCalls = MaxRequests

\* C5: when the logger or the greeting provider raises during a GET /, the
\* request ends in the framework's error response: never in a 200, never in
\* a body with a "message" key.
C5_RaisePropagates ==
  \A r \in Requests :
    raised[r] # "none" =>
      /\ Done(r)
      /\ resp[r].status = 500
      /\ resp[r].status # 200
      /\ "message" \notin DOMAIN resp[r].body

C5_Witness ==
  /\ \E r \in Requests : raised[r] = "greeting" /\ resp[r].status = 500
  /\ \E r \in Requests : raised[r] = "logger" /\ resp[r].status = 500

\* C6: no step of the handling of a GET /items/... request (its arrival, its
\* validation, its rejection, the handler's return) changes the number of
\* info lines emitted or the number of greeting calls made.
C6_ItemNoEffect ==
  [][\A r \in Requests :
       (pc'[r] # pc[r] /\ route'[r] = "items") =>
         (logCount' = logCount /\ greetCalls' = greetCalls /\ logsBy' = logsBy
          /\ greetsBy' = greetsBy)]_vars

C6_Witness ==
  /\ \E r \in Requests : RootOk(r) /\ logsBy[r] = 1
  /\ \E r \in Requests : GoodItem(r) /\ Done(r) /\ logsBy[r] = 0
  /\ logCount = 1
  /\ greetCalls = 1

\* The response to request r handled alone: a function of its own route and
\* parameters and, on the root route, of what the collaborators did for it.
Alone(r) ==
  IF route[r] = "root"
  THEN IF raised[r] # "none"
       THEN [status |-> 500, body |-> [string |-> "Internal Server Error"]]
       ELSE [status |-> 200, body |-> [message |-> [string |-> greetRet[r].str]]]
  ELSE IF intent[r] = PyNone
       THEN [status |-> 422, body |-> [detail |-> "int_parsing"]]
       ELSE [status |-> 200,
             body |-> [item_id |-> [number |-> intent[r].int], q |-> JsonQ(r)]]

\* C7: under every interleaving of requests on both routes, each request is
\* answered as it would be alone, and a step taken for one request changes
\* neither the locals nor the response of any other, nor a module global.
C7_Isolation ==
  /\ [](\A r \in Requests : Done(r) => resp[r] = Alone(r))
  /\ [][/\ \A r \in Requests :
            pc'[r] = pc[r] => (frame'[r] = frame[r] /\ resp'[r] = resp[r])
        /\ modpc = "serving" => (logger' = logger /\ app' = app)]_vars

C7_Witness ==
  /\ pc[1] = "L20"
  /\ Done(2) /\ GoodItem(2)
  /\ frame[1].item_id # intent[2]
  /\ frame[1].q # q_param(query[2])
  /\ resp[2] = Alone(2)

\* C8: a GET /items/<n> for an integer n with no q in the query string is
\* answered with a body that holds the key "q" with the value null.
C8_AbsentQNull ==
  \A r \in Requests :
    (GoodItem(r) /\ Done(r) /\ query[r] = Absent) =>
      /\ "q" \in DOMAIN resp[r].body
      /\ resp[r].body.q = [null |-> TRUE]

C8_Witness ==
  \E r \in Requests :
    /\ GoodItem(r) /\ Done(r) /\ query[r] = Absent
    /\ intent[r] = PyInt(5)
    /\ resp[r] = [status |-> 200,
                  body |-> [item_id |-> [number |-> 5], q |-> [null |-> TRUE]]]

\* C9: within one GET / the info line is emitted before the greeting provider
\* is called: a greeting call is made only by a request that has emitted its
\* one line; a request whose greeting call raised has emitted one line; a
\* request whose logger call raised makes no greeting call.
C9_LogBeforeGreeting ==
  /\ [](\A r \in Requests :
          /\ greetsBy[r] > 0 => logsBy[r] = 1
          /\ raised[r] = "greeting" => logsBy[r] = 1
          /\ raised[r] = "logger" => greetsBy[r] = 0)
  /\ [][\A r \in Requests : greetsBy'[r] > greetsBy[r] => logsBy[r] = 1]_vars

C9_Witness ==
  /\ \E r \in Requests : raised[r] = "greeting" /\ logsBy[r] = 1 /\ greetsBy[r] = 1
  /\ \E r \in Requests : raised[r] = "logger" /\ greetsBy[r] = 0 /\ Done(r)

\* C10: get_logger is called exactly once, during the import and before any
\* request is dispatched; `logger` is never assigned again, and every GET /
\* logs through that one handle.
C10_OneLogger ==
  /\ [](/\ getLoggerCalls <= 1
        /\ \A r \in Requests :
             /\ pc[r] # "idle" => (getLoggerCalls = 1 /\ logger # Unset)
             /\ logVia[r] # Unset => logVia[r] = logger)
  /\ [][logger # Unset => (logger' = logger /\ getLoggerCalls' = getLoggerCalls)]_vars

C10_Witness ==
  /\ \A r \in Requests : logVia[r] = logger /\ logsBy[r] = 1
  /\ logger = get_logger("greet-FastAPI-logger", 1)
  /\ getLoggerCalls = 1

====
